---- MODULE Spec2Model ----
(***************************************************************************)
(* A model of the graphical-model runtime of gmc: the node registry of a   *)
(* Model (stochastic / observed / deterministic), the nodes' SetValue      *)
(* contracts, Observe, the joint log-probability evaluator and the three   *)
(* sampling procedures.                                                    *)
(*                                                                         *)
(* float64 values are encoded as integers in quarters: the float x is the  *)
(* integer 4*x, so One = 4 encodes 1.0 and Half = 2 encodes 0.5.  Sums,    *)
(* comparisons and math.Round are exact on this encoding.                  *)
(*                                                                         *)
(* The log-densities and the variate generators of gonum's distuv are      *)
(* external: a node's LogProb() is an uninterpreted term that records the  *)
(* node, the value and the parameter values it was evaluated at, and a     *)
(* node's Rand() maps one raw draw of the shared random source to a value. *)
(***************************************************************************)
EXTENDS Integers, Sequences, FiniteSets, TLC

(***************************************************************************)
(* Bounds of the model.                                                    *)
(***************************************************************************)
MaxVars == 2
MaxStatic == 1
MaxSamples == 1
MaxBurnIn == 0
MaxTraceLen == 2

\* the longest trace an index is drawn for
MaxIndexLen == 30

\* the seed of the random source that NewModel creates; the source is known
\* by its seed
Seed == 8128

(***************************************************************************)
(* float64                                                                 *)
(***************************************************************************)
One == 4
Half == 2
NaN == 1000

\* +Inf; -Inf is its negation
Inf == 900

IsNaN(x) == x = NaN

IsInf(x) == x = Inf \/ x = -Inf

\* x < y on float64: false when either side is NaN
FLt(x, y) == ~IsNaN(x) /\ ~IsNaN(y) /\ x < y

\* x > y on float64: false when either side is NaN
FGt(x, y) == ~IsNaN(x) /\ ~IsNaN(y) /\ x > y

\* x != y on float64: true when either side is NaN
FNe(x, y) == IsNaN(x) \/ IsNaN(y) \/ x # y

FAdd(x, y) ==
    IF IsNaN(x) \/ IsNaN(y) THEN NaN
    ELSE IF IsInf(x) THEN (IF y = -x THEN NaN ELSE x)
    ELSE IF IsInf(y) THEN y
    ELSE x + y

FMul(x, y) ==
    IF IsNaN(x) \/ IsNaN(y) THEN NaN
    ELSE IF IsInf(x) \/ IsInf(y)
    THEN (IF x = 0 \/ y = 0 THEN NaN
          ELSE IF (x < 0) = (y < 0) THEN Inf ELSE -Inf)
    ELSE (x * y) \div One

\* math.Round: nearest integer, halves away from zero
Round(x) ==
    IF IsNaN(x) \/ IsInf(x) THEN x
    ELSE IF x >= 0 THEN ((x + Half) \div One) * One
    ELSE -(((Half - x) \div One) * One)

(***************************************************************************)
(* Input sets                                                              *)
(***************************************************************************)
\* names of random variables
Names == 1..MaxVars

\* 0.5, 1.5: the values observed, proposed, visited by a sampler and found
\* in a trace
Values == {Half, One + Half}

\* values of Constant nodes
ConstValues == {One}

\* trial counts passed to Model.Binomial
TrialCounts == {0, One}

\* raw draws of the random source: a uniform variate 0.25 or 0.75
RawDraws == {1, 3}

(***************************************************************************)
(* State                                                                   *)
(***************************************************************************)
\* nodes:         every node object the factories registered, indexed by
\*                its reference 1..Len(nodes); a node is a record
\*                [kind, name, value, N, X, Y, Src] (X, Y: references of the
\*                parameter nodes, 0 when the family has no such parameter;
\*                Src: the random source the node draws from, 0 for none)
\* stochastic:    Model.stochastic, a sequence of references
\* observed:      Model.observed, a sequence of references
\* deterministic: Model.deterministic, a sequence of references
\* last:          the last call made on the Model: its arguments, whether
\*                it returned or panicked, what it returned and the calls
\*                it made on the nodes, in order
\* sampler:       the sampler.MetropolisHastings object that
\*                NewMetropolisHastingsSampler made last, if any: its
\*                NumVariables and its Initial (isNil: Initial is nil)
VARIABLES nodes, stochastic, observed, deterministic, last, sampler

vars == <<nodes, stochastic, observed, deterministic, last, sampler>>

\* the Model object
Model == [nodes |-> nodes, stochastic |-> stochastic, observed |-> observed,
          deterministic |-> deterministic, Src |-> Seed]

RandKinds == {"Normal", "Beta", "Bernoulli", "Binomial"}

IsRandVar(n) == n.kind \in RandKinds

(***************************************************************************)
(* Nodes                                                                   *)
(***************************************************************************)
\* math.Log(1 / (1 - v)) for v in [0, 1] or NaN, to the nearest quarter:
\* 0, 0.288, 0.693, 1.386, +Inf
LogitOf(v) ==
    CASE v = 0 -> 0
      [] v = 1 -> 1
      [] v = Half -> 3
      [] v = 3 -> One + Half
      [] v = One -> Inf
      [] OTHER -> NaN

\* Var.Value() of the node with reference id, when it returns
RECURSIVE Value(_, _)
Value(h, id) ==
    IF h[id].kind = "Logit" THEN LogitOf(Value(h, h[id].X))
    ELSE h[id].value

\* whether Var.Value() of the node with reference id panics: LogitGate.Value()
\* does when the value of its input does, or is < 0 or > 1
RECURSIVE ValuePanics(_, _)
ValuePanics(h, id) ==
    /\ h[id].kind = "Logit"
    /\ \/ ValuePanics(h, h[id].X)
       \/ FLt(Value(h, h[id].X), 0)
       \/ FGt(Value(h, h[id].X), One)

\* &node.LogitGate{X: x}
NewLogitGate(x) ==
    [kind |-> "Logit", name |-> 0, value |-> 0, N |-> 0, X |-> x, Y |-> 0,
     Src |-> 0]

NewConstant(v) ==
    [kind |-> "Constant", name |-> 0, value |-> v, N |-> 0, X |-> 0, Y |-> 0,
     Src |-> 0]

NewNormal(h, name, mu, sigma, src) ==
    [kind |-> "Normal", name |-> name, value |-> Value(h, mu), N |-> 0,
     X |-> mu, Y |-> sigma, Src |-> src]

NewBeta(h, name, alpha, beta, src) ==
    [kind |-> "Beta", name |-> name, value |-> Half, N |-> 0,
     X |-> alpha, Y |-> beta, Src |-> src]

NewBernoulli(h, name, p, src) ==
    [kind |-> "Bernoulli", name |-> name, value |-> 0, N |-> 0,
     X |-> p, Y |-> 0, Src |-> src]

\* NewBinomial leaving Src unset: distuv then draws from the source of the
\* process
NewBinomialOwnSource(h, name, N, p, src) ==
    [kind |-> "Binomial", name |-> name, value |-> FMul(N, Value(h, p)),
     N |-> N, X |-> p, Y |-> 0, Src |-> 0]

NewBinomial(h, name, N, p, src) ==
    [kind |-> "Binomial", name |-> name, value |-> FMul(N, Value(h, p)),
     N |-> N, X |-> p, Y |-> 0, Src |-> src]

\* SetValue returns the node after the call and whether an OutOfBoundsErr
\* was returned
NormalSetValue(n, newValue) ==
    [node |-> [n EXCEPT !.value = newValue], err |-> FALSE]

\* Beta.SetValue storing the value before it checks it
BetaSetValueStoresFirst(n, newValue) ==
    [node |-> [n EXCEPT !.value = newValue],
     err |-> FLt(newValue, 0) \/ FGt(newValue, One)]

BetaSetValue(n, newValue) ==
    IF FLt(newValue, 0) \/ FGt(newValue, One)
    THEN [node |-> n, err |-> TRUE]
    ELSE [node |-> [n EXCEPT !.value = newValue], err |-> FALSE]

BernoulliSetValue(n, newValue) ==
    LET roundedVal == Round(newValue)
    IN  IF FNe(roundedVal, 0) /\ FNe(roundedVal, One)
        THEN [node |-> n, err |-> TRUE]
        ELSE [node |-> [n EXCEPT !.value = newValue], err |-> FALSE]

BinomialSetValue(n, newValue) ==
    LET roundedVal == Round(newValue)
    IN  IF FLt(roundedVal, 0) \/ FGt(roundedVal, n.N)
        THEN [node |-> n, err |-> TRUE]
        ELSE [node |-> [n EXCEPT !.value = newValue], err |-> FALSE]

\* RandVar.SetValue, dispatched on the node's family
SetValue(n, newValue) ==
    CASE n.kind = "Normal" -> NormalSetValue(n, newValue)
      [] n.kind = "Beta" -> BetaSetValue(n, newValue)
      [] n.kind = "Bernoulli" -> BernoulliSetValue(n, newValue)
      [] n.kind = "Binomial" -> BinomialSetValue(n, newValue)

\* RandVar.LogProb(): the density of the node's family, evaluated at the
\* node's current value (at) and its parameters' current values (a, b)
NormalLogProb(h, id) ==
    [node |-> id, kind |-> "Normal", at |-> h[id].value,
     a |-> Value(h, h[id].X), b |-> Value(h, h[id].Y)]

BetaLogProb(h, id) ==
    [node |-> id, kind |-> "Beta", at |-> Value(h, id),
     a |-> Value(h, h[id].X), b |-> Value(h, h[id].Y)]

BernoulliLogProb(h, id) ==
    [node |-> id, kind |-> "Bernoulli", at |-> h[id].value,
     a |-> Value(h, h[id].X), b |-> 0]

BinomialLogProb(h, id) ==
    [node |-> id, kind |-> "Binomial", at |-> h[id].value,
     a |-> Value(h, h[id].X), b |-> h[id].N]

NodeLogProb(h, id) ==
    CASE h[id].kind = "Normal" -> NormalLogProb(h, id)
      [] h[id].kind = "Beta" -> BetaLogProb(h, id)
      [] h[id].kind = "Bernoulli" -> BernoulliLogProb(h, id)
      [] h[id].kind = "Binomial" -> BinomialLogProb(h, id)

\* whether RandVar.LogProb() and RandVar.Rand() of the node panic: they do
\* when Value() of a parameter does
ParameterPanics(h, id) ==
    \/ h[id].X # 0 /\ ValuePanics(h, h[id].X)
    \/ h[id].Y # 0 /\ ValuePanics(h, h[id].Y)

\* RandVar.Rand(): one variate of the node's family given the parameters'
\* current values, from the raw draw u of the shared source
NormalRand(h, id, u) ==
    LET z == IF u < Half THEN -One ELSE One
    IN  FAdd(Value(h, h[id].X), FMul(Value(h, h[id].Y), z))

BetaRand(h, id, u) == u

BernoulliRand(h, id, u) == IF FLt(u, Value(h, h[id].X)) THEN One ELSE 0

BinomialRand(h, id, u) == IF FLt(u, Value(h, h[id].X)) THEN h[id].N ELSE 0

NodeRand(h, id, u) ==
    CASE h[id].kind = "Normal" -> NormalRand(h, id, u)
      [] h[id].kind = "Beta" -> BetaRand(h, id, u)
      [] h[id].kind = "Bernoulli" -> BernoulliRand(h, id, u)
      [] h[id].kind = "Binomial" -> BinomialRand(h, id, u)

(***************************************************************************)
(* Model: construction and registry                                        *)
(***************************************************************************)
\* the outcome of a call: the Model after it and whether it panicked
Returned(m) == [m |-> m, panic |-> FALSE]

Panicked(m) == [m |-> m, panic |-> TRUE]

\* the names of the nodes a collection refers to, in its order
NamesOf(h, coll) == [i \in 1..Len(coll) |-> h[coll[i]].name]

\* whether the collection refers to the object id
InColl(coll, id) == \E i \in 1..Len(coll) : coll[i] = id

\* IsTaken looking at m.stochastic only
IsTakenStochasticOnly(m, name) ==
    \E i \in 1..Len(m.stochastic) : m.nodes[m.stochastic[i]].name = name

IsTaken(m, name) ==
    \/ \E i \in 1..Len(m.stochastic) : m.nodes[m.stochastic[i]].name = name
    \/ \E i \in 1..Len(m.observed) : m.nodes[m.observed[i]].name = name

\* m.stochastic = append(m.stochastic, node), node being a new object
AppendStochastic(m, node) ==
    [m EXCEPT !.nodes = Append(@, node),
              !.stochastic = Append(@, Len(m.nodes) + 1)]

\* m.deterministic = append(m.deterministic, node), node being a new object
AppendDeterministic(m, node) ==
    [m EXCEPT !.nodes = Append(@, node),
              !.deterministic = Append(@, Len(m.nodes) + 1)]

\* NewNormal evaluates mu.Value()
ModelNormal(m, name, mu, sigma) ==
    IF ValuePanics(m.nodes, mu) THEN Panicked(m)
    ELSE LET newNormal == NewNormal(m.nodes, name, mu, sigma, m.Src)
         IN  IF IsTaken(m, name) THEN Panicked(m)
             ELSE Returned(AppendStochastic(m, newNormal))

ModelBeta(m, name, alpha, beta) ==
    LET newBeta == NewBeta(m.nodes, name, alpha, beta, m.Src)
    IN  IF IsTaken(m, name) THEN Panicked(m)
        ELSE Returned(AppendStochastic(m, newBeta))

\* Bernoulli appending the new node before it checks the name
ModelBernoulliAppendsFirst(m, name, p) ==
    LET newBernoulli == NewBernoulli(m.nodes, name, p, m.Src)
    IN  IF IsTaken(m, name) THEN Panicked(AppendStochastic(m, newBernoulli))
        ELSE Returned(AppendStochastic(m, newBernoulli))

ModelBernoulli(m, name, p) ==
    LET newBernoulli == NewBernoulli(m.nodes, name, p, m.Src)
    IN  IF IsTaken(m, name) THEN Panicked(m)
        ELSE Returned(AppendStochastic(m, newBernoulli))

\* Binomial taking any trial count
ModelBinomialAnyCount(m, name, N, p) ==
    LET newBinomial == NewBinomial(m.nodes, name, N, p, m.Src)
    IN  IF IsTaken(m, name) THEN Panicked(m)
        ELSE Returned(AppendStochastic(m, newBinomial))

\* NewBinomial evaluates p.Value()
ModelBinomial(m, name, N, p) ==
    IF N = 0 THEN Panicked(m)
    ELSE IF ValuePanics(m.nodes, p) THEN Panicked(m)
    ELSE LET newBinomial == NewBinomial(m.nodes, name, N, p, m.Src)
         IN  IF IsTaken(m, name) THEN Panicked(m)
             ELSE Returned(AppendStochastic(m, newBinomial))

ModelConstant(m, value) == Returned(AppendDeterministic(m, NewConstant(value)))

ModelLogit(m, x) == Returned(AppendDeterministic(m, NewLogitGate(x)))

\* the first index of coll whose node is called name, 0 when there is none
RECURSIVE IndexOfName(_, _, _, _)
IndexOfName(h, coll, name, i) ==
    IF i > Len(coll) THEN 0
    ELSE IF h[coll[i]].name = name THEN i
    ELSE IndexOfName(h, coll, name, i + 1)

\* append(s[:i+1], s[i+2:]...): the element after the one meant is removed
RemoveAtOffByOne(s, i) == SubSeq(s, 1, i) \o SubSeq(s, i + 2, Len(s))

\* append(s[:i], s[i+1:]...), i counted from 1
RemoveAt(s, i) == SubSeq(s, 1, i - 1) \o SubSeq(s, i + 1, Len(s))

\* Observe leaving the node in m.stochastic
ModelObserveKeepsStochastic(m, name, value) ==
    LET i == IndexOfName(m.nodes, m.stochastic, name, 1)
    IN  IF i = 0 THEN Panicked(m)
        ELSE LET model_var == m.stochastic[i]
             IN  Returned([m EXCEPT
                     !.observed = Append(@, model_var),
                     !.nodes[model_var] = SetValue(@, value).node])

\* Observe giving a new value to a node it finds in m.observed
ModelObserveAgain(m, name, value) ==
    LET i == IndexOfName(m.nodes, m.stochastic, name, 1)
        k == IndexOfName(m.nodes, m.observed, name, 1)
    IN  IF i # 0
        THEN LET model_var == m.stochastic[i]
             IN  Returned([m EXCEPT
                     !.stochastic = RemoveAt(@, i),
                     !.observed = Append(@, model_var),
                     !.nodes[model_var] = SetValue(@, value).node])
        ELSE IF k # 0
        THEN Returned([m EXCEPT !.nodes[m.observed[k]] = SetValue(@, value).node])
        ELSE Panicked(m)

\* Observe writing the value without SetValue's check
ModelObserveForcesValue(m, name, value) ==
    LET i == IndexOfName(m.nodes, m.stochastic, name, 1)
    IN  IF i = 0 THEN Panicked(m)
        ELSE LET model_var == m.stochastic[i]
             IN  Returned([m EXCEPT
                     !.stochastic = RemoveAt(@, i),
                     !.observed = Append(@, model_var),
                     !.nodes[model_var].value = value])

\* Observe(variable, value): of variable only the name is read
ModelObserve(m, name, value) ==
    LET i == IndexOfName(m.nodes, m.stochastic, name, 1)
    IN  IF i = 0 THEN Panicked(m)
        ELSE LET model_var == m.stochastic[i]
             IN  Returned([m EXCEPT
                     !.stochastic = RemoveAt(@, i),
                     !.observed = Append(@, model_var),
                     !.nodes[model_var] = SetValue(@, value).node])

\* Observe calling SetValue on the object it was given
ModelObserveVarSetsArgument(m, variable, value) ==
    LET i == IndexOfName(m.nodes, m.stochastic, m.nodes[variable].name, 1)
    IN  IF i = 0 THEN Panicked(m)
        ELSE LET model_var == m.stochastic[i]
             IN  Returned([m EXCEPT
                     !.stochastic = RemoveAt(@, i),
                     !.observed = Append(@, model_var),
                     !.nodes[variable] = SetValue(@, value).node])

\* Observe(variable, value), variable being the reference of any RandVar
\* object
ModelObserveVar(m, variable, value) ==
    ModelObserve(m, m.nodes[variable].name, value)

(***************************************************************************)
(* Model: joint log-probability                                            *)
(***************************************************************************)
\* the assignment loop going on after a rejected value
RECURSIVE AssignProposedNoAbort(_, _, _, _, _)
AssignProposedNoAbort(h, coll, proposed, i, sets) ==
    IF i > Len(proposed)
    THEN [nodes |-> h, err |-> \E k \in 1..Len(sets) : sets[k].err, sets |-> sets]
    ELSE LET r == SetValue(h[coll[i]], proposed[i])
             call == [node |-> coll[i], value |-> proposed[i], err |-> r.err]
         IN  AssignProposedNoAbort([h EXCEPT ![coll[i]] = r.node], coll,
                                   proposed, i + 1, Append(sets, call))

\* the assignment loop of LogProb from index i on; sets is the list of the
\* SetValue calls made so far
RECURSIVE AssignProposed(_, _, _, _, _)
AssignProposed(h, coll, proposed, i, sets) ==
    IF i > Len(proposed) THEN [nodes |-> h, err |-> FALSE, sets |-> sets]
    ELSE LET r == SetValue(h[coll[i]], proposed[i])
             call == [node |-> coll[i], value |-> proposed[i], err |-> r.err]
             after == [h EXCEPT ![coll[i]] = r.node]
         IN  IF r.err
             THEN [nodes |-> after, err |-> TRUE, sets |-> Append(sets, call)]
             ELSE AssignProposed(after, coll, proposed, i + 1,
                                 Append(sets, call))

\* whether a LogProb() called in the two loops of the sum panics
SumPanics(h, stoch, obs) ==
    \/ \E i \in 1..Len(stoch) : ParameterPanics(h, stoch[i])
    \/ \E i \in 1..Len(obs) : ParameterPanics(h, obs[i])

\* the terms added to logprob, in the order they are added
SumLogProb(h, stoch, obs) ==
    [i \in 1..Len(stoch) |-> NodeLogProb(h, stoch[i])]
        \o [i \in 1..Len(obs) |-> NodeLogProb(h, obs[i])]

\* LogProb accepting a vector shorter than m.stochastic
ModelLogProbShortOk(m, proposed) ==
    IF Len(proposed) > Len(m.stochastic)
    THEN [m |-> m, panic |-> TRUE, ret |-> "none", terms |-> <<>>, sets |-> <<>>]
    ELSE LET a == AssignProposed(m.nodes, m.stochastic, proposed, 1, <<>>)
             after == [m EXCEPT !.nodes = a.nodes]
         IN  IF a.err
             THEN [m |-> after, panic |-> FALSE, ret |-> "neginf",
                   terms |-> <<>>, sets |-> a.sets]
             ELSE [m |-> after, panic |-> FALSE, ret |-> "sum",
                   terms |-> SumLogProb(a.nodes, m.stochastic, m.observed),
                   sets |-> a.sets]

\* LogProb adding up the terms before it assigns the proposed values
ModelLogProbStaleTerms(m, proposed) ==
    IF Len(proposed) # Len(m.stochastic)
    THEN [m |-> m, panic |-> TRUE, ret |-> "none", terms |-> <<>>, sets |-> <<>>]
    ELSE LET a == AssignProposed(m.nodes, m.stochastic, proposed, 1, <<>>)
             after == [m EXCEPT !.nodes = a.nodes]
         IN  IF a.err
             THEN [m |-> after, panic |-> FALSE, ret |-> "neginf",
                   terms |-> <<>>, sets |-> a.sets]
             ELSE [m |-> after, panic |-> FALSE, ret |-> "sum",
                   terms |-> SumLogProb(m.nodes, m.stochastic, m.observed),
                   sets |-> a.sets]

\* LogProb returning the sum of the terms when a proposed value is rejected
ModelLogProbSumsRejected(m, proposed) ==
    IF Len(proposed) # Len(m.stochastic)
    THEN [m |-> m, panic |-> TRUE, ret |-> "none", terms |-> <<>>, sets |-> <<>>]
    ELSE LET a == AssignProposed(m.nodes, m.stochastic, proposed, 1, <<>>)
         IN  [m |-> [m EXCEPT !.nodes = a.nodes], panic |-> FALSE,
              ret |-> "sum",
              terms |-> SumLogProb(a.nodes, m.stochastic, m.observed),
              sets |-> a.sets]

\* LogProb returning math.Inf(-1) when a LogProb() of the sum panics
ModelLogProbRecovers(m, proposed) ==
    IF Len(proposed) # Len(m.stochastic)
    THEN [m |-> m, panic |-> TRUE, ret |-> "none", terms |-> <<>>, sets |-> <<>>]
    ELSE LET a == AssignProposed(m.nodes, m.stochastic, proposed, 1, <<>>)
             after == [m EXCEPT !.nodes = a.nodes]
         IN  IF a.err \/ SumPanics(a.nodes, m.stochastic, m.observed)
             THEN [m |-> after, panic |-> FALSE, ret |-> "neginf",
                   terms |-> <<>>, sets |-> a.sets]
             ELSE [m |-> after, panic |-> FALSE, ret |-> "sum",
                   terms |-> SumLogProb(a.nodes, m.stochastic, m.observed),
                   sets |-> a.sets]

\* LogProb(proposed): ret is "neginf" for math.Inf(-1), "sum" for the sum of
\* terms, "none" when the call panicked
ModelLogProb(m, proposed) ==
    IF Len(proposed) # Len(m.stochastic)
    THEN [m |-> m, panic |-> TRUE, ret |-> "none", terms |-> <<>>, sets |-> <<>>]
    ELSE LET a == AssignProposed(m.nodes, m.stochastic, proposed, 1, <<>>)
             after == [m EXCEPT !.nodes = a.nodes]
         IN  IF a.err
             THEN [m |-> after, panic |-> FALSE, ret |-> "neginf",
                   terms |-> <<>>, sets |-> a.sets]
             ELSE IF SumPanics(a.nodes, m.stochastic, m.observed)
             THEN [m |-> after, panic |-> TRUE, ret |-> "none",
                   terms |-> <<>>, sets |-> a.sets]
             ELSE [m |-> after, panic |-> FALSE, ret |-> "sum",
                   terms |-> SumLogProb(a.nodes, m.stochastic, m.observed),
                   sets |-> a.sets]

(***************************************************************************)
(* Model: sampling                                                         *)
(***************************************************************************)
\* a draw of node id: the source it was taken from and the raw draw u that
\* the source gave, what was drawn (out) and the parameter values the draw
\* was made with
Draw(h, id, u) ==
    [node |-> id, src |-> h[id].Src, u |-> u, out |-> NodeRand(h, id, u),
     a |-> Value(h, h[id].X),
     b |-> IF h[id].Y = 0 THEN h[id].N ELSE Value(h, h[id].Y)]

\* the loop over m.stochastic drawing from every node and storing no draw
RECURSIVE DrawStochasticKeeps(_, _, _, _, _)
DrawStochasticKeeps(h, coll, us, j, draws) ==
    IF j > Len(coll)
    THEN [nodes |-> h, panic |-> FALSE, us |-> us, draws |-> draws]
    ELSE DrawStochasticKeeps(h, coll, Tail(us), j + 1,
                             Append(draws, Draw(h, coll[j], Head(us))))

\* for _, v := range m.stochastic { v.SetValue(v.Rand()) }, from index j on;
\* us are the raw draws the source has yet to give
RECURSIVE DrawStochastic(_, _, _, _, _)
DrawStochastic(h, coll, us, j, draws) ==
    IF j > Len(coll)
    THEN [nodes |-> h, panic |-> FALSE, us |-> us, draws |-> draws]
    ELSE IF ParameterPanics(h, coll[j])
    THEN [nodes |-> h, panic |-> TRUE, us |-> us, draws |-> draws]
    ELSE LET v == coll[j]
             d == Draw(h, v, Head(us))
         IN  DrawStochastic([h EXCEPT ![v] = SetValue(@, d.out).node], coll,
                            Tail(us), j + 1, Append(draws, d))

\* for _, o := range m.observed { samples[o.Name()][i] = o.Rand() }: the
\* draws of one iteration, in the order of m.observed
DrawObserved(h, coll, us) ==
    [j \in 1..Len(coll) |-> Draw(h, coll[j], us[j])]

\* whether a Rand() of that loop panics
DrawObservedPanics(h, coll) ==
    \E j \in 1..Len(coll) : ParameterPanics(h, coll[j])

\* the trace built from rows, rows[i][j] being what iteration i stored under
\* the name of coll[j]; a later j of the same name overwrites an earlier one
TraceOf(h, coll, rows) ==
    [name \in {h[coll[j]].name : j \in 1..Len(coll)} |->
        [i \in 1..Len(rows) |->
            LET j == CHOOSE k \in 1..Len(coll) :
                        /\ h[coll[k]].name = name
                        /\ \A l \in (k + 1)..Len(coll) : h[coll[l]].name # name
            IN  rows[i][j]]]

Outs(draws) == [j \in 1..Len(draws) |-> draws[j].out]

\* the observed nodes after o.SetValue(o.Rand()) on each of them
RECURSIVE SetObserved(_, _, _, _)
SetObserved(h, coll, o, j) ==
    IF j > Len(coll) THEN h
    ELSE SetObserved([h EXCEPT ![coll[j]] = SetValue(@, o[j].out).node],
                     coll, o, j + 1)

\* SamplePriorPredictive storing each draw of an observed node in the node
RECURSIVE PriorIterationsSetObserved(_, _, _, _, _, _)
PriorIterationsSetObserved(m, numSamples, us, i, rows, draws) ==
    IF i > numSamples
    THEN [m |-> m, panic |-> FALSE, rows |-> rows, draws |-> draws]
    ELSE LET s == DrawStochastic(m.nodes, m.stochastic, us, 1, <<>>)
             o == DrawObserved(s.nodes, m.observed, s.us)
         IN  PriorIterationsSetObserved(
                 [m EXCEPT !.nodes = SetObserved(s.nodes, m.observed, o, 1)],
                 numSamples, SubSeq(s.us, Len(m.observed) + 1, Len(s.us)),
                 i + 1, Append(rows, Outs(o)), draws \o s.draws \o o)

\* the iterations of SamplePriorPredictive from iteration i on
RECURSIVE PriorIterations(_, _, _, _, _, _)
PriorIterations(m, numSamples, us, i, rows, draws) ==
    IF i > numSamples
    THEN [m |-> m, panic |-> FALSE, rows |-> rows, draws |-> draws]
    ELSE LET s == DrawStochastic(m.nodes, m.stochastic, us, 1, <<>>)
             o == DrawObserved(s.nodes, m.observed, s.us)
         IN  IF s.panic \/ DrawObservedPanics(s.nodes, m.observed)
             THEN [m |-> [m EXCEPT !.nodes = s.nodes], panic |-> TRUE,
                   rows |-> rows, draws |-> draws \o s.draws]
             ELSE PriorIterations([m EXCEPT !.nodes = s.nodes], numSamples,
                      SubSeq(s.us, Len(m.observed) + 1, Len(s.us)),
                      i + 1, Append(rows, Outs(o)), draws \o s.draws \o o)

\* SamplePriorPredictive making a key of the trace when it first stores a
\* draw under it
ModelSamplePriorPredictiveAppends(m, numSamples, us) ==
    LET r == PriorIterations(m, numSamples, us, 1, <<>>, <<>>)
    IN  [m |-> r.m, panic |-> FALSE, draws |-> r.draws,
         trace |-> IF numSamples = 0 THEN [name \in {} |-> <<>>]
                   ELSE TraceOf(m.nodes, m.observed, r.rows)]

\* SamplePriorPredictive(numSamples), us being the raw draws of the source
ModelSamplePriorPredictive(m, numSamples, us) ==
    LET r == PriorIterations(m, numSamples, us, 1, <<>>, <<>>)
    IN  [m |-> r.m, panic |-> r.panic, draws |-> r.draws,
         trace |-> IF r.panic THEN [name \in {} |-> <<>>]
                   ELSE TraceOf(m.nodes, m.observed, r.rows)]

\* the number of raw draws one iteration of a predictive sampler takes from
\* the nodes
DrawsPerIteration(m) == Len(m.stochastic) + Len(m.observed)

\* the first loop panicking too when two sequences of the trace differ in
\* length
RECURSIVE TraceSizeEqualLengths(_, _, _, _, _)
TraceSizeEqualLengths(h, coll, trace, j, traceSize) ==
    IF j > Len(coll) THEN [panic |-> FALSE, traceSize |-> traceSize]
    ELSE IF h[coll[j]].name \notin DOMAIN trace
    THEN [panic |-> TRUE, traceSize |-> traceSize]
    ELSE IF j > 1 /\ Len(trace[h[coll[j]].name]) # traceSize
    THEN [panic |-> TRUE, traceSize |-> traceSize]
    ELSE TraceSizeEqualLengths(h, coll, trace, j + 1,
                               Len(trace[h[coll[j]].name]))

\* the first loop of SamplePosteriorPredictive from index j on: whether a
\* name is missing from the trace, and traceSize
RECURSIVE TraceSize(_, _, _, _, _)
TraceSize(h, coll, trace, j, traceSize) ==
    IF j > Len(coll) THEN [panic |-> FALSE, traceSize |-> traceSize]
    ELSE IF h[coll[j]].name \notin DOMAIN trace
    THEN [panic |-> TRUE, traceSize |-> traceSize]
    ELSE TraceSize(h, coll, trace, j + 1, Len(trace[h[coll[j]].name]))

\* the index sampler made with Max: traceSize
DrawLocUpToSize(traceSize, u) == Round(FMul(u, traceSize * One)) \div One

\* int(math.Round(sampler.Rand())) for distuv.Uniform{Min: 0, Max: traceSize - 1}
\* and the raw draw u
DrawLoc(traceSize, u) == Round(FMul(u, (traceSize - 1) * One)) \div One

\* for _, variable := range m.stochastic { variable.SetValue(trace[name][loc]) }
\* from index j on; an index out of range panics
RECURSIVE AssignTrace(_, _, _, _, _)
AssignTrace(h, coll, trace, loc, j) ==
    IF j > Len(coll) THEN [nodes |-> h, panic |-> FALSE]
    ELSE LET name == h[coll[j]].name
         IN  IF loc < 0 \/ loc >= Len(trace[name])
             THEN [nodes |-> h, panic |-> TRUE]
             ELSE AssignTrace(
                      [h EXCEPT ![coll[j]] = SetValue(@, trace[name][loc + 1]).node],
                      coll, trace, loc, j + 1)

\* the iterations of SamplePosteriorPredictive from iteration i on
RECURSIVE PosteriorIterations(_, _, _, _, _, _, _, _)
PosteriorIterations(m, numSamples, trace, traceSize, us, i, rows, draws) ==
    IF i > numSamples
    THEN [m |-> m, panic |-> FALSE, rows |-> rows, draws |-> draws]
    ELSE LET loc == DrawLoc(traceSize, Head(us))
             locDraw == [node |-> 0, src |-> m.Src, u |-> Head(us), out |-> loc,
                         a |-> 0, b |-> traceSize]
             s == AssignTrace(m.nodes, m.stochastic, trace, loc, 1)
             after == [m EXCEPT !.nodes = s.nodes]
             o == DrawObserved(s.nodes, m.observed, Tail(us))
         IN  IF s.panic \/ DrawObservedPanics(s.nodes, m.observed)
             THEN [m |-> after, panic |-> TRUE, rows |-> rows,
                   draws |-> Append(draws, locDraw)]
             ELSE PosteriorIterations(after, numSamples, trace, traceSize,
                      SubSeq(us, Len(m.observed) + 2, Len(us)), i + 1,
                      Append(rows, Outs(o)), Append(draws, locDraw) \o o)

EmptyTrace == [name \in {} |-> <<>>]

\* SamplePosteriorPredictive looking for the names in the trace only once an
\* iteration needs them
ModelSamplePosteriorPredictiveLate(m, numSamples, trace, us) ==
    LET t == TraceSize(m.nodes, m.stochastic, trace, 1, 0)
    IN  IF t.panic
        THEN [m |-> m, panic |-> numSamples > 0, draws |-> <<>>,
              trace |-> EmptyTrace]
        ELSE LET r == PosteriorIterations(m, numSamples, trace, t.traceSize,
                                          us, 1, <<>>, <<>>)
             IN  [m |-> r.m, panic |-> r.panic, draws |-> r.draws,
                  trace |-> IF r.panic THEN EmptyTrace
                            ELSE TraceOf(m.nodes, m.observed, r.rows)]

\* SamplePosteriorPredictive(numSamples, trace), us being the raw draws
ModelSamplePosteriorPredictive(m, numSamples, trace, us) ==
    LET t == TraceSize(m.nodes, m.stochastic, trace, 1, 0)
    IN  IF t.panic
        THEN [m |-> m, panic |-> TRUE, draws |-> <<>>, trace |-> EmptyTrace]
        ELSE LET r == PosteriorIterations(m, numSamples, trace, t.traceSize,
                                          us, 1, <<>>, <<>>)
             IN  [m |-> r.m, panic |-> r.panic, draws |-> r.draws,
                  trace |-> IF r.panic THEN EmptyTrace
                            ELSE TraceOf(m.nodes, m.observed, r.rows)]

\* sampler.Sample(batch), the Metropolis-Hastings sampler of gonum: it
\* evaluates Target.LogProb at Initial and then, at every step, at a proposed
\* point, which becomes the current point when the step accepts it (a point
\* of log-probability -infinity is never accepted); the first burnIn steps
\* are discarded and every later step stores the current point in a row of
\* the batch.  calls lists what each LogProb was given and what it returned.
RECURSIVE SamplerSteps(_, _, _, _, _, _, _, _)

\* what a call of Target.LogProb is recorded as: r is what it returned
SamplerCall(r, proposed) ==
    [proposed |-> proposed, ret |-> r.ret, sets |-> r.sets, terms |-> r.terms]

\* the point after step i, r being what LogProb returned for proposals[i]
SamplerNext(r, proposals, accepts, i, current) ==
    IF accepts[i] /\ r.ret = "sum" THEN proposals[i] ELSE current

\* step i once LogProb has returned r for proposals[i], and the steps after
SamplerStep(r, proposals, accepts, burnIn, i, current, rows, calls) ==
    IF r.panic
    THEN [m |-> r.m, panic |-> TRUE, rows |-> rows,
          calls |-> Append(calls, SamplerCall(r, proposals[i]))]
    ELSE SamplerSteps(r.m, proposals, accepts, burnIn, i + 1,
             SamplerNext(r, proposals, accepts, i, current),
             IF i > burnIn
             THEN Append(rows, SamplerNext(r, proposals, accepts, i, current))
             ELSE rows,
             Append(calls, SamplerCall(r, proposals[i])))

SamplerSteps(m, proposals, accepts, burnIn, i, current, rows, calls) ==
    IF i > Len(proposals)
    THEN [m |-> m, panic |-> FALSE, rows |-> rows, calls |-> calls]
    ELSE SamplerStep(ModelLogProb(m, proposals[i]), proposals, accepts,
                     burnIn, i, current, rows, calls)

\* the steps of the sampler once LogProb has returned r for initial
SamplerStart(r, initial, proposals, accepts, burnIn) ==
    IF r.panic
    THEN [m |-> r.m, panic |-> TRUE, rows |-> <<>>,
          calls |-> <<SamplerCall(r, initial)>>]
    ELSE SamplerSteps(r.m, proposals, accepts, burnIn, 1, initial, <<>>,
                      <<SamplerCall(r, initial)>>)

RunSampler(m, initial, proposals, accepts, burnIn) ==
    SamplerStart(ModelLogProb(m, initial), initial, proposals, accepts, burnIn)

\* the values appended to trace[name] by row: the columns called name
RECURSIVE RowEntries(_, _, _, _, _)
RowEntries(h, coll, row, name, j) ==
    IF j > Len(coll) THEN <<>>
    ELSE (IF h[coll[j]].name = name THEN <<row[j]>> ELSE <<>>)
             \o RowEntries(h, coll, row, name, j + 1)

RECURSIVE TraceEntries(_, _, _, _, _)
TraceEntries(h, coll, rows, name, i) ==
    IF i > Len(rows) THEN <<>>
    ELSE RowEntries(h, coll, rows[i], name, 1)
             \o TraceEntries(h, coll, rows, name, i + 1)

\* the loop of lines 117-122: trace[name] = append(trace[name], row[j])
SampleTrace(h, coll, rows) ==
    IF Len(rows) = 0 THEN EmptyTrace
    ELSE [name \in {h[coll[j]].name : j \in 1..Len(coll)} |->
             TraceEntries(h, coll, rows, name, 1)]

\* what Sample returns when the sampler has returned r
Sampled(m, r) ==
    IF r.panic
    THEN [m |-> r.m, panic |-> TRUE, calls |-> r.calls, batch |-> <<>>,
          trace |-> EmptyTrace]
    ELSE [m |-> r.m, panic |-> FALSE, calls |-> r.calls, batch |-> r.rows,
          trace |-> SampleTrace(m.nodes, m.stochastic, r.rows)]

\* Sample checking the length of initial after the sampler has run
ModelSampleChecksAfter(m, nSamples, initial, proposals, accepts, zeroOk) ==
    IF Len(initial) # Len(m.stochastic)
    THEN [m |-> m, panic |-> TRUE,
          calls |-> RunSampler(m, initial, proposals, accepts,
                               Len(proposals) - nSamples).calls,
          batch |-> <<>>, trace |-> EmptyTrace]
    ELSE IF (nSamples = 0 \/ Len(m.stochastic) = 0) /\ ~zeroOk
    THEN [m |-> m, panic |-> TRUE, calls |-> <<>>, batch |-> <<>>,
          trace |-> EmptyTrace]
    ELSE Sampled(m, RunSampler(m, initial, proposals, accepts,
                               Len(proposals) - nSamples))

\* Sample(nSamples, initial, sampler): the sampler takes Len(proposals)
\* steps, the first Len(proposals) - nSamples of them burn-in; zeroOk tells
\* whether mat.NewDense accepts a dimension of 0
ModelSample(m, nSamples, initial, proposals, accepts, zeroOk) ==
    IF Len(initial) # Len(m.stochastic)
    THEN [m |-> m, panic |-> TRUE, calls |-> <<>>, batch |-> <<>>,
          trace |-> EmptyTrace]
    ELSE IF (nSamples = 0 \/ Len(m.stochastic) = 0) /\ ~zeroOk
    THEN [m |-> m, panic |-> TRUE, calls |-> <<>>, batch |-> <<>>,
          trace |-> EmptyTrace]
    ELSE Sampled(m, RunSampler(m, initial, proposals, accepts,
                               Len(proposals) - nSamples))

(***************************************************************************)
(* The sampler object                                                      *)
(***************************************************************************)
\* no sampler made yet
NoSampler ==
    [made |-> FALSE, NumVariables |-> 0, isNil |-> TRUE, Initial |-> <<>>]

\* NewMetropolisHastingsSampler(model): Initial is left nil
NewSampler(m) ==
    [made |-> TRUE, NumVariables |-> Len(m.stochastic), isNil |-> TRUE,
     Initial |-> <<>>]

\* what Run returns when the embedded sampler has returned r
Ran(r) ==
    [m |-> r.m, panic |-> r.panic, calls |-> r.calls,
     batch |-> IF r.panic THEN <<>> ELSE r.rows]

\* MetropolisHastings.Run(numSamples) of the sampler s whose Target is the
\* Model m: the embedded sampler takes Len(proposals) steps, the first
\* Len(proposals) - numSamples of them burn-in; zeroOk tells whether
\* mat.NewDense accepts a dimension of 0
MetropolisHastingsRun(s, m, numSamples, proposals, accepts, zeroOk) ==
    IF s.isNil
    THEN [m |-> m, panic |-> TRUE, calls |-> <<>>, batch |-> <<>>]
    ELSE IF Len(s.Initial) # s.NumVariables
    THEN [m |-> m, panic |-> TRUE, calls |-> <<>>, batch |-> <<>>]
    ELSE IF (numSamples = 0 \/ s.NumVariables = 0) /\ ~zeroOk
    THEN [m |-> m, panic |-> TRUE, calls |-> <<>>, batch |-> <<>>]
    ELSE Ran(RunSampler(m, s.Initial, proposals, accepts,
                        Len(proposals) - numSamples))

(***************************************************************************)
(* Calls on the Model                                                      *)
(***************************************************************************)
NoCall ==
    [op |-> "NewModel", status |-> "ok", name |-> 0, value |-> 0,
     proposed |-> <<>>, n |-> 0, ret |-> "none", terms |-> <<>>,
     sets |-> <<>>]

Status(r) == IF r.panic THEN "panic" ELSE "ok"

Becomes(m) ==
    /\ nodes' = m.nodes
    /\ stochastic' = m.stochastic
    /\ observed' = m.observed
    /\ deterministic' = m.deterministic

\* the call recorded as call has ended as r tells
Called(r, call) ==
    /\ Becomes(r.m)
    /\ last' = [call EXCEPT !.status = Status(r)]
    /\ sampler' = sampler

\* a call of LogProb has ended as r tells
Evaluated(r, call) ==
    Called(r, [call EXCEPT !.ret = r.ret, !.terms = r.terms, !.sets = r.sets])

\* a call of a sampling method has ended as r tells
Traced(r, call) ==
    Called(r, [call EXCEPT !.ret = IF r.panic THEN "none" ELSE "trace"])

\* a call of SamplePosteriorPredictive has ended as r tells, after it took
\* the number of variates in value from the source
Predicted(r, call) == Traced(r, [call EXCEPT !.value = Len(r.draws)])

\* the names a factory is called with: a name in use, or the first free one
\* (names are interchangeable)
TakenNames == {n \in Names : IsTaken(Model, n)}

FactoryNames ==
    TakenNames \cup {n \in Names \ TakenNames : \A k \in Names \ TakenNames : n <= k}

\* the number of random variables of the model
NumRandVars == Len(stochastic) + Len(observed)

\* the nodes passed as the first parameter of a new node (mu, alpha, p): any
\* node of the model
Vars == 1..Len(nodes)

\* the first parameters tried with name: a call with a name in use ends the
\* same way whatever its parameters, so that one parameter is tried
Parents(name) == {v \in Vars : name \in TakenNames => v = 1}

\* the nodes passed as the second parameter (sigma, beta): the constants
Statics == {deterministic[i] : i \in 1..Len(deterministic)}

\* all sequences of length k over S
Vectors(k, S) == [1..k -> S]

Init ==
    /\ nodes = <<>>
    /\ stochastic = <<>>
    /\ observed = <<>>
    /\ deterministic = <<>>
    /\ last = NoCall
    /\ sampler = NoSampler

Constant(value) ==
    /\ Len(deterministic) < MaxStatic
    /\ Called(ModelConstant(Model, value),
              [NoCall EXCEPT !.op = "Constant", !.value = value])

Normal(name, mu, sigma) ==
    /\ NumRandVars < MaxVars
    /\ Called(ModelNormal(Model, name, mu, sigma),
              [NoCall EXCEPT !.op = "Normal", !.name = name])

Beta(name, alpha, beta) ==
    /\ NumRandVars < MaxVars
    /\ Called(ModelBeta(Model, name, alpha, beta),
              [NoCall EXCEPT !.op = "Beta", !.name = name])

Bernoulli(name, p) ==
    /\ NumRandVars < MaxVars
    /\ Called(ModelBernoulli(Model, name, p),
              [NoCall EXCEPT !.op = "Bernoulli", !.name = name])

Binomial(name, N, p) ==
    /\ NumRandVars < MaxVars
    /\ Called(ModelBinomial(Model, name, N, p),
              [NoCall EXCEPT !.op = "Binomial", !.name = name, !.value = N])

Observe(name, value) ==
    Called(ModelObserve(Model, name, value),
           [NoCall EXCEPT !.op = "Observe", !.name = name, !.value = value])

LogProb(proposed) ==
    Evaluated(ModelLogProb(Model, proposed),
              [NoCall EXCEPT !.op = "LogProb", !.proposed = proposed])

SamplePriorPredictive(numSamples, us) ==
    Traced(ModelSamplePriorPredictive(Model, numSamples, us),
           [NoCall EXCEPT !.op = "SamplePriorPredictive", !.n = numSamples])

Sample(nSamples, initial, proposals, accepts, zeroOk) ==
    Traced(ModelSample(Model, nSamples, initial, proposals, accepts, zeroOk),
           [NoCall EXCEPT !.op = "Sample", !.n = nSamples])

SamplePosteriorPredictive(numSamples, trace, us) ==
    Predicted(ModelSamplePosteriorPredictive(Model, numSamples, trace, us),
              [NoCall EXCEPT !.op = "SamplePosteriorPredictive", !.n = numSamples])

\* one vector of each length up to one more than the length of m.stochastic
Lengths == {[i \in 1..k |-> Half] : k \in 0..(Len(stochastic) + 1)}

\* the points of the right length
Points == Vectors(Len(stochastic), Values)

\* the vectors LogProb is called with: every point, and one vector of each
\* wrong length
Proposals == Points \cup Lengths

\* the initial points Sample is called with: the points whose coordinates are
\* all the same, and one vector of each wrong length
Initials == {[i \in 1..Len(stochastic) |-> v] : v \in Values} \cup Lengths

\* the sequences found in a trace: neighbours differ, so that an entry
\* tells the row it was taken from
TraceSeqs ==
    {s \in UNION {Vectors(k, Values) : k \in 0..MaxTraceLen} :
        \A i \in 1..(Len(s) - 1) : s[i] # s[i + 1]}

\* whether mat.NewDense(r, c, nil) accepts its dimensions: it does when both
\* are positive, and a dimension of 0 is left to the version of the library
NewDenseOk(r, c) == IF r = 0 \/ c = 0 THEN BOOLEAN ELSE {TRUE}

\* what the sampler does in a call of Sample: nothing when Sample panics
\* before it runs, else burnIn + nSamples steps
SamplerRuns(nSamples, initial) ==
    IF Len(initial) # Len(stochastic)
    THEN {[proposals |-> <<>>, accepts |-> <<>>, zeroOk |-> TRUE]}
    ELSE {[proposals |-> <<>>, accepts |-> <<>>, zeroOk |-> FALSE] :
              ok \in NewDenseOk(nSamples, Len(stochastic)) \ {TRUE}}
         \cup UNION {[proposals : Vectors(burnIn + nSamples, Points),
                      accepts : Vectors(burnIn + nSamples, BOOLEAN),
                      zeroOk : {TRUE}] : burnIn \in 0..MaxBurnIn}

StochasticNames == {nodes[stochastic[j]].name : j \in 1..Len(stochastic)}

\* the traces SamplePosteriorPredictive is called with: a sequence for every
\* stochastic name, or empty sequences for some of the names
Traces ==
    [StochasticNames -> TraceSeqs]
        \cup {[name \in K |-> <<>>] : K \in SUBSET StochasticNames}

Next ==
    \/ \E value \in ConstValues : Constant(value)
    \/ \E name \in FactoryNames :
           \E mu \in Parents(name), sigma \in Statics : Normal(name, mu, sigma)
    \/ \E name \in FactoryNames :
           \E alpha \in Parents(name), beta \in Statics : Beta(name, alpha, beta)
    \/ \E name \in FactoryNames : \E p \in Parents(name) : Bernoulli(name, p)
    \/ \E name \in FactoryNames :
           \E N \in TrialCounts, p \in Parents(name) : Binomial(name, N, p)
    \/ \E name \in Names, value \in Values : Observe(name, value)
    \/ \E proposed \in Proposals : LogProb(proposed)
    \/ \E numSamples \in 0..MaxSamples :
           \E us \in Vectors(numSamples * DrawsPerIteration(Model), RawDraws) :
               SamplePriorPredictive(numSamples, us)
    \/ \E nSamples \in 0..MaxSamples, initial \in Initials :
           \E run \in SamplerRuns(nSamples, initial) :
               Sample(nSamples, initial, run.proposals, run.accepts, run.zeroOk)
    \/ \E numSamples \in 0..MaxSamples, trace \in Traces :
           \E us \in Vectors(numSamples * (1 + Len(observed)), RawDraws) :
               SamplePosteriorPredictive(numSamples, trace, us)

Spec == Init /\ [][Next]_vars

(***************************************************************************)
(* The index drawn by SamplePosteriorPredictive, on its own                *)
(***************************************************************************)
\* the variates of the source in [0, 1): 0, 0.25, 0.5, 0.75
UniformDraws == 0..(One - 1)

\* loc := int(math.Round(sampler.Rand())) for a trace of length traceSize
DrawIndex(traceSize, u) ==
    /\ last' = [op |-> "DrawLoc", traceSize |-> traceSize, u |-> u,
                loc |-> DrawLoc(traceSize, u)]
    /\ UNCHANGED <<nodes, stochastic, observed, deterministic, sampler>>

IndexNext == \E traceSize \in 0..MaxIndexLen, u \in UniformDraws :
                 DrawIndex(traceSize, u)

SpecIndex == Init /\ [][IndexNext]_vars

(***************************************************************************)
(* Models with a Logit gate                                                *)
(***************************************************************************)
\* the number of Logit gates of a model
MaxGates == 1

Gates == {id \in 1..Len(nodes) : nodes[id].kind = "Logit"}

Logit(x) ==
    /\ Cardinality(Gates) < MaxGates
    /\ Called(ModelLogit(Model, x), [NoCall EXCEPT !.op = "Logit", !.name = x])

\* the calls that build a model with a gate and evaluate it: the gate takes
\* any node as its input, and any node is the first parameter of a new node
GateNext ==
    \/ \E value \in ConstValues : Constant(value)
    \/ \E x \in Vars : Logit(x)
    \/ \E name \in FactoryNames :
           \E mu \in Parents(name), sigma \in Statics : Normal(name, mu, sigma)
    \/ \E name \in FactoryNames :
           \E alpha \in Parents(name), beta \in Statics : Beta(name, alpha, beta)
    \/ \E name \in FactoryNames : \E p \in Parents(name) : Bernoulli(name, p)
    \/ \E name \in FactoryNames :
           \E N \in TrialCounts, p \in Parents(name) : Binomial(name, N, p)
    \/ \E name \in Names, value \in Values : Observe(name, value)
    \/ \E proposed \in Proposals : LogProb(proposed)

SpecGates == Init /\ [][GateNext]_vars

(***************************************************************************)
(* Models with a sampler object                                            *)
(***************************************************************************)
NewMetropolisHastingsSampler ==
    /\ sampler' = NewSampler(Model)
    /\ last' = [NoCall EXCEPT !.op = "NewMetropolisHastingsSampler"]
    /\ UNCHANGED <<nodes, stochastic, observed, deterministic>>

\* sampler.Initial = initial, by the caller; initial is nil when isNil
SetInitial(isNil, initial) ==
    /\ sampler.made
    /\ sampler' = [sampler EXCEPT !.isNil = isNil, !.Initial = initial]
    /\ last' = [NoCall EXCEPT !.op = "SetInitial", !.proposed = initial]
    /\ UNCHANGED <<nodes, stochastic, observed, deterministic>>

\* a call of Run has ended as r tells
Returns(r, call) ==
    Called(r, [call EXCEPT !.ret = IF r.panic THEN "none" ELSE "batch",
                           !.value = Len(r.calls)])

Run(numSamples, proposals, accepts, zeroOk) ==
    /\ sampler.made
    /\ Returns(MetropolisHastingsRun(sampler, Model, numSamples, proposals,
                                     accepts, zeroOk),
               [NoCall EXCEPT !.op = "Run", !.n = numSamples])

\* the values of Initial: nil, and the vectors of up to MaxVars equal
\* coordinates
InitialValues ==
    {[isNil |-> TRUE, v |-> <<>>]}
        \cup {[isNil |-> FALSE, v |-> [i \in 1..k |-> x]] :
                  k \in 0..MaxVars, x \in Values}

\* the points of the sampler's dimension
SamplerPoints == Vectors(sampler.NumVariables, Values)

\* what the embedded sampler does in a call of Run
EmbeddedRuns(numSamples) ==
    {[proposals |-> <<>>, accepts |-> <<>>, zeroOk |-> FALSE] :
         ok \in NewDenseOk(numSamples, sampler.NumVariables) \ {TRUE}}
    \cup UNION {[proposals : Vectors(burnIn + numSamples, SamplerPoints),
                 accepts : Vectors(burnIn + numSamples, BOOLEAN),
                 zeroOk : {TRUE}] : burnIn \in 0..MaxBurnIn}

\* the calls that build a model, make a sampler for it at any time, and run
\* the sampler
RunNext ==
    \/ \E value \in ConstValues : Constant(value)
    \/ \E name \in FactoryNames :
           \E mu \in Parents(name), sigma \in Statics : Normal(name, mu, sigma)
    \/ \E name \in FactoryNames :
           \E alpha \in Parents(name), beta \in Statics : Beta(name, alpha, beta)
    \/ \E name \in Names, value \in Values : Observe(name, value)
    \/ NewMetropolisHastingsSampler
    \/ \E i \in InitialValues : SetInitial(i.isNil, i.v)
    \/ \E numSamples \in 0..MaxSamples :
           \E run \in EmbeddedRuns(numSamples) :
               Run(numSamples, run.proposals, run.accepts, run.zeroOk)

SpecSampler == Init /\ [][RunNext]_vars

(***************************************************************************)
(* Models and the random variables made outside them                       *)
(***************************************************************************)
\* the number of random variables made outside the Model
MaxForeign == 1

\* the random source of a random variable made outside the Model
OtherSeed == 1

\* the objects that are random variables, in the Model or not
RandVarObjects == {id \in 1..Len(nodes) : IsRandVar(nodes[id])}

\* the random variables that are in no collection of the Model
ForeignObjects ==
    {id \in RandVarObjects : ~InColl(stochastic, id) /\ ~InColl(observed, id)}

\* node.NewBernoulli(name, p, src) or node.NewNormal(name, mu, sigma, src),
\* called by the program itself or by another Model: the object is in no
\* collection of this Model
NewForeign(kind, name, x, y) ==
    /\ Cardinality(ForeignObjects) < MaxForeign
    /\ nodes' = Append(nodes,
                       IF kind = "Normal"
                       THEN NewNormal(nodes, name, x, y, OtherSeed)
                       ELSE NewBernoulli(nodes, name, x, OtherSeed))
    /\ last' = [NoCall EXCEPT !.op = "NewForeign", !.name = name]
    /\ UNCHANGED <<stochastic, observed, deterministic, sampler>>

\* m.Observe(variable, value)
ObserveVar(variable, value) ==
    Called(ModelObserveVar(Model, variable, value),
           [op |-> "ObserveVar", status |-> "ok", variable |-> variable,
            name |-> nodes[variable].name, value |-> value])

\* the calls that build a model, make random variables outside it, and
\* observe a random variable of either sort
ForeignNext ==
    \/ \E value \in ConstValues : Constant(value)
    \/ \E name \in FactoryNames :
           \E mu \in Statics, sigma \in Statics : Normal(name, mu, sigma)
    \/ \E name \in FactoryNames :
           \E alpha \in Statics, beta \in Statics : Beta(name, alpha, beta)
    \/ \E name \in FactoryNames : \E p \in Statics : Bernoulli(name, p)
    \/ \E kind \in {"Normal", "Bernoulli"}, name \in Names :
           \E x \in Statics, y \in Statics : NewForeign(kind, name, x, y)
    \/ \E variable \in RandVarObjects, value \in Values :
           ObserveVar(variable, value)

SpecForeign == Init /\ [][ForeignNext]_vars

(***************************************************************************)
(* SetValue of one node, on its own                                        *)
(***************************************************************************)
\* the float64 values SetValue is called with: -1.5, -1.25, ..., 2.5, and NaN
Floats == ((-(One + Half))..(2 * One + Half)) \cup {NaN}

\* the values a node holds before the call: 0, 0.5
StoredValues == {0, Half}

\* the trial counts of the Binomial nodes SetValue is called on: 1, 1.5, 2
NodeTrialCounts == {One, One + Half, 2 * One}

\* a node of the family kind holding value, its parameters left out
NodeOf(kind, N, value) ==
    [kind |-> kind, name |-> 1, value |-> value, N |-> N, X |-> 0, Y |-> 0,
     Src |-> 0]

\* err := n.SetValue(newValue) on a node n of the family kind
CallSetValue(kind, N, value, newValue) ==
    /\ last' = [op |-> "SetValue", kind |-> kind, N |-> N, old |-> value,
                newValue |-> newValue,
                err |-> SetValue(NodeOf(kind, N, value), newValue).err,
                value |-> SetValue(NodeOf(kind, N, value), newValue).node.value]
    /\ UNCHANGED <<nodes, stochastic, observed, deterministic, sampler>>

SetValueNext ==
    \/ \E kind \in RandKinds \ {"Binomial"} :
           \E value \in StoredValues, newValue \in Floats :
               CallSetValue(kind, 0, value, newValue)
    \/ \E N \in NodeTrialCounts, value \in StoredValues, newValue \in Floats :
           CallSetValue("Binomial", N, value, newValue)

SpecSetValue == Init /\ [][SetValueNext]_vars

(***************************************************************************)
(* Properties                                                              *)
(***************************************************************************)
FactoryOps == {"Normal", "Beta", "Bernoulli", "Binomial"}

SamplingOps == {"SamplePriorPredictive", "Sample", "SamplePosteriorPredictive"}

InSeq(s, x) == \E i \in 1..Len(s) : s[i] = x

Occurrences(s, x) == Cardinality({i \in 1..Len(s) : s[i] = x})

\* the references of the random-variable nodes
RandVarRefs == {id \in 1..Len(nodes) : IsRandVar(nodes[id])}

\* the registry is left as it was
RegistryUnchanged == UNCHANGED <<stochastic, observed, deterministic>>

\* no node's stored value is changed (and no node is added)
ValuesUnchanged == nodes' = nodes

\* C1: in every reachable state no two nodes of stochastic and observed
\* together carry the same name.
C1_NamesUnique ==
    LET all == stochastic \o observed
    IN  \A i, j \in 1..Len(all) : i # j => nodes[all[i]].name # nodes[all[j]].name

\* C1 witness: a factory was called with the name that an observed node
\* carries, and panicked.
C1_Witness ==
    /\ last.op \in FactoryOps
    /\ last.status = "panic"
    /\ \E i \in 1..Len(observed) : nodes[observed[i]].name = last.name

C2_InExactlyOne ==
    \A id \in RandVarRefs :
        Occurrences(stochastic, id) + Occurrences(observed, id) = 1

C2_Step ==
    /\ Len(nodes') >= Len(nodes)
    /\ \A id \in 1..Len(nodes) :
           /\ nodes'[id].kind = nodes[id].kind
           /\ nodes'[id].name = nodes[id].name
           /\ InSeq(observed, id) => InSeq(observed', id) /\ ~InSeq(stochastic', id)

\* C2: every registered random-variable node is at all times in exactly one
\* of stochastic and observed, is never dropped, and once in observed stays
\* in observed and out of stochastic.
C2_RegisteredOnce == []C2_InExactlyOne /\ [][C2_Step]_vars

\* C2 witness: with one node observed and another still stochastic, a
\* sampling procedure has run.
C2_Witness ==
    /\ Len(observed) = 1
    /\ Len(stochastic) = 1
    /\ last.op \in SamplingOps
    /\ last.status = "ok"
    /\ last.n > 0

\* the index in the pre-state's stochastic of the node called name, or 0
StochasticIndex(name) == IndexOfName(nodes, stochastic, name, 1)

C4_ObserveUnknown ==
    [][(last'.op = "Observe" /\ StochasticIndex(last'.name) = 0) =>
          /\ last'.status = "panic"
          /\ RegistryUnchanged
          /\ ValuesUnchanged]_vars

\* C4 witness: a variable already observed was observed again, with a value
\* other than the one it holds, and the call panicked.
C4_Witness ==
    /\ last.op = "Observe"
    /\ last.status = "panic"
    /\ \E i \in 1..Len(observed) :
           /\ nodes[observed[i]].name = last.name
           /\ nodes[observed[i]].value # last.value

\* C5 as stated: after Observe returns, the node moved to observed holds the
\* value passed, whatever the family and the value.
C5_ObserveStoresAnyValue ==
    (last.op = "Observe" /\ last.status = "ok") =>
        nodes[observed[Len(observed)]].value = last.value

\* C5 amended: after Observe returns, the node moved to observed holds the
\* value passed when the node's SetValue accepts it; when SetValue rejects
\* it the node is moved all the same and keeps the value it had.
C5_ObserveStoresAcceptedValue ==
    [][(last'.op = "Observe" /\ last'.status = "ok") =>
          LET id == observed'[Len(observed')]
          IN  nodes'[id].value =
                  IF SetValue(nodes[id], last'.value).err
                  THEN nodes[id].value
                  ELSE last'.value]_vars

\* C5 witness: Observe returned after the node's SetValue rejected the value.
C5_Witness ==
    /\ last.op = "Observe"
    /\ last.status = "ok"
    /\ SetValue(nodes[observed[Len(observed)]], last.value).err

\* C6: no call on the Model changes the stored value of a node that is in
\* observed.
C6_ObservedValueFixed ==
    [][\A i \in 1..Len(observed) :
           nodes'[observed[i]].value = nodes[observed[i]].value]_vars

\* C6 witness: a predictive sampler has run an iteration on a model with an
\* observed node and a stochastic node.
C6_Witness ==
    /\ last.op \in {"SamplePriorPredictive", "SamplePosteriorPredictive"}
    /\ last.status = "ok"
    /\ last.n > 0
    /\ Len(observed) > 0
    /\ Len(stochastic) > 0

\* whether SetValue of the i-th stochastic node rejects proposed[i]
Rejects(proposed, i) == SetValue(nodes[stochastic[i]], proposed[i]).err

\* the first index whose proposed value is rejected, 0 when there is none
FirstRejected(proposed) ==
    IF \E i \in 1..Len(proposed) : Rejects(proposed, i)
    THEN CHOOSE i \in 1..Len(proposed) :
             /\ Rejects(proposed, i)
             /\ \A j \in 1..(i - 1) : ~Rejects(proposed, j)
    ELSE 0

\* C7: LogProb on a vector of the right length of which some value is
\* rejected returns -infinity without panicking; it makes the SetValue calls
\* up to the first rejected index and no other, and evaluates no LogProb().
C7_RejectedIsNegInf ==
    (/\ last.op = "LogProb"
     /\ Len(last.proposed) = Len(stochastic)
     /\ FirstRejected(last.proposed) # 0) =>
        /\ last.status = "ok"
        /\ last.ret = "neginf"
        /\ last.terms = <<>>
        /\ Len(last.sets) = FirstRejected(last.proposed)
        /\ \A k \in 1..Len(last.sets) : last.sets[k].node = stochastic[k]

\* C7 witness: LogProb returned -infinity at the first of two indices.
C7_Witness ==
    /\ last.op = "LogProb"
    /\ last.ret = "neginf"
    /\ Len(stochastic) = 2
    /\ Len(last.sets) = 1

\* C8: when LogProb returns -infinity the nodes before the first rejected
\* index hold their proposed values, the node at that index and the nodes
\* after it hold the values they had, and the observed values and the
\* collections are as they were.
C8_PartialAssignment ==
    [][(last'.op = "LogProb" /\ last'.ret = "neginf") =>
          LET i == FirstRejected(last'.proposed)
          IN  /\ i # 0
              /\ \A j \in 1..(i - 1) :
                     nodes'[stochastic[j]].value = last'.proposed[j]
              /\ \A j \in i..Len(stochastic) :
                     nodes'[stochastic[j]].value = nodes[stochastic[j]].value
              /\ \A j \in 1..Len(observed) :
                     nodes'[observed[j]].value = nodes[observed[j]].value
              /\ RegistryUnchanged]_vars

\* C8 witness: LogProb returned -infinity at the second index, the first
\* node holding its proposed value.
C8_Witness ==
    /\ last.op = "LogProb"
    /\ last.ret = "neginf"
    /\ Len(last.sets) = 2
    /\ nodes[stochastic[1]].value = last.proposed[1]
    /\ nodes[stochastic[2]].value # last.proposed[2]

\* C9: LogProb on a vector whose length is not the number of stochastic
\* nodes panics and changes no node's stored value.
C9_WrongLength ==
    [][(last'.op = "LogProb" /\ Len(last'.proposed) # Len(stochastic)) =>
          /\ last'.status = "panic"
          /\ ValuesUnchanged
          /\ RegistryUnchanged]_vars

\* C9 witness: LogProb panicked on a vector shorter than a stochastic
\* collection that an Observe has shrunk.
C9_Witness ==
    /\ last.op = "LogProb"
    /\ last.status = "panic"
    /\ Len(observed) > 0
    /\ Len(last.proposed) < Len(stochastic)

\* the term LogProb() of node id gives in the current state
ExpectedTerm(id) ==
    [node |-> id, kind |-> nodes[id].kind, at |-> nodes[id].value,
     a |-> nodes[nodes[id].X].value,
     b |-> IF nodes[id].kind = "Binomial" THEN nodes[id].N
           ELSE IF nodes[id].Y = 0 THEN 0 ELSE nodes[nodes[id].Y].value]

\* C10: when every proposed value is accepted, each stochastic node holds
\* its proposed value and LogProb returns the sum of one term per stochastic
\* node and one per observed node, each evaluated at the values the nodes
\* hold after all the assignments; no other node gives a term.
C10_SumAfterAssignment ==
    (/\ last.op = "LogProb"
     /\ Len(last.proposed) = Len(stochastic)
     /\ FirstRejected(last.proposed) = 0) =>
        /\ last.status = "ok"
        /\ last.ret = "sum"
        /\ \A i \in 1..Len(stochastic) :
               nodes[stochastic[i]].value = last.proposed[i]
        /\ last.terms = [k \in 1..(Len(stochastic) + Len(observed)) |->
                            ExpectedTerm((stochastic \o observed)[k])]

\* C10 witness: LogProb returned a sum in which a node's term was evaluated
\* at a newly proposed value of its stochastic parent.
C10_Witness ==
    /\ last.op = "LogProb"
    /\ last.ret = "sum"
    /\ Len(deterministic) > 0
    /\ \E k \in 1..Len(last.terms) :
           /\ InSeq(stochastic, nodes[last.terms[k].node].X)
           /\ last.terms[k].a # One

\* the values a stochastic node is left with by earlier calls
LeftValues == Values \cup {0}

\* the Model with the j-th stochastic node holding vals[j]
WithStochastic(m, vals) ==
    [m EXCEPT !.nodes =
        [id \in 1..Len(m.nodes) |->
            IF \E j \in 1..Len(m.stochastic) : m.stochastic[j] = id
            THEN [m.nodes[id] EXCEPT !.value =
                     vals[CHOOSE j \in 1..Len(m.stochastic) : m.stochastic[j] = id]]
            ELSE m.nodes[id]]]

\* what the caller of LogProb sees
Outcome(r) == [panic |-> r.panic, ret |-> r.ret, terms |-> r.terms]

\* C11: with the registry and the observed values fixed, what LogProb(x)
\* returns does not depend on the values the stochastic nodes hold when it
\* is called, and a second LogProb(x) right after the first returns the same
\* and leaves the same node values.
C11_LogProbPure ==
    \A x \in Proposals :
        /\ \A vals \in Vectors(Len(stochastic), LeftValues) :
               Outcome(ModelLogProb(WithStochastic(Model, vals), x))
                   = Outcome(ModelLogProb(Model, x))
        /\ Outcome(ModelLogProb(ModelLogProb(Model, x).m, x))
               = Outcome(ModelLogProb(Model, x))
        /\ ModelLogProb(ModelLogProb(Model, x).m, x).m = ModelLogProb(Model, x).m

\* C11 witness: a rejected proposal has left the first stochastic node with
\* its proposed value and its stochastic child with the value it had.
C11_Witness ==
    /\ last.op = "LogProb"
    /\ last.ret = "neginf"
    /\ Len(last.sets) = 2
    /\ nodes[stochastic[2]].X = stochastic[1]
    /\ nodes[stochastic[2]].value # last.proposed[2]

\* C12: a factory called with a name that a node of stochastic or observed
\* carries panics and leaves the Model as it was: no node is appended.
C12_DuplicateName ==
    \A name \in TakenNames, x \in Vars, y \in Statics, N \in TrialCounts :
        \A r \in {ModelNormal(Model, name, x, y), ModelBeta(Model, name, x, y),
                  ModelBernoulli(Model, name, x), ModelBinomial(Model, name, N, x)} :
            r.panic /\ r.m = Model

\* C12 witness: a factory was called with the name of a stochastic node and
\* a trial count other than 0, and panicked.
C12_Witness ==
    /\ last.op \in FactoryOps
    /\ last.status = "panic"
    /\ last.op = "Binomial" => last.value # 0
    /\ \E i \in 1..Len(stochastic) : nodes[stochastic[i]].name = last.name

ObservedNames == {nodes[observed[j]].name : j \in 1..Len(observed)}

\* the raw draws SamplePriorPredictive(n) takes from the source
PriorDraws(n) == Vectors(n * DrawsPerIteration(Model), RawDraws)

\* the place in the list of draws of the draw that iteration i of a
\* prior-predictive call makes for the j-th node of stochastic \o observed
PriorDrawAt(i, j) == (i - 1) * DrawsPerIteration(Model) + j

C15_OneSource ==
    /\ \A id \in RandVarRefs : nodes[id].Src = Model.Src
    /\ \A n \in 0..MaxSamples : \A us \in PriorDraws(n) :
           LET r == ModelSamplePriorPredictive(Model, n, us)
           IN  /\ \A k \in 1..Len(r.draws) : r.draws[k].src = Model.Src
               /\ \A vals \in Vectors(Len(stochastic), LeftValues) :
                      ModelSamplePriorPredictive(WithStochastic(Model, vals),
                                                 n, us).trace = r.trace

\* C15 witness: SamplePriorPredictive has run an iteration on a model with
\* two observed nodes, the second the child of the first.
C15_Witness ==
    /\ last.op = "SamplePriorPredictive"
    /\ last.status = "ok"
    /\ last.n > 0
    /\ Len(observed) = 2
    /\ nodes[observed[2]].X = observed[1]

\* C16: Sample with an initial point whose length is not the number of
\* stochastic nodes panics, whatever the sampler would have done: LogProb
\* is not called and the Model is left as it was.
C16_SampleWrongLength ==
    \A n \in 0..MaxSamples, initial \in Initials :
        Len(initial) # Len(stochastic) =>
            \A proposals \in Vectors(n, Points), accepts \in Vectors(n, BOOLEAN),
               zeroOk \in BOOLEAN :
                LET r == ModelSample(Model, n, initial, proposals, accepts, zeroOk)
                IN  r.panic /\ r.calls = <<>> /\ r.m = Model

\* C16 witness: Sample panicked although it was asked for a sample of a
\* model that has a stochastic node, so that mat.NewDense had nothing to
\* reject.
C16_Witness ==
    /\ last.op = "Sample"
    /\ last.status = "panic"
    /\ last.n > 0
    /\ Len(stochastic) > 0

\* the trace r.trace has one sequence of length n for every stochastic name,
\* entry i of the sequence of the j-th stochastic node being row i, column j
\* of the table r.batch
Transposed(r, n) ==
    /\ DOMAIN r.trace = StochasticNames
    /\ \A j \in 1..Len(stochastic) :
           LET seq == r.trace[nodes[stochastic[j]].name]
           IN  /\ Len(seq) = n
               /\ \A i \in 1..n : seq[i] = r.batch[i][j]

\* the calls of Sample for nSamples = n that return, checked by P
SampleReturns(n, P(_, _)) ==
    \A initial \in Initials : \A run \in SamplerRuns(n, initial) :
        LET r == ModelSample(Model, n, initial, run.proposals, run.accepts,
                             run.zeroOk)
        IN  ~r.panic => P(r, n)

\* C17 as stated: for every nSamples >= 0, Sample returns a trace with one
\* key per stochastic name and no other, every sequence of length nSamples,
\* entry i of the j-th node's sequence being row i, column j of the table.
C17_SampleTrace ==
    \A n \in 0..MaxSamples : SampleReturns(n, Transposed)

\* the same for nSamples >= 1: this much of C17 holds
C17_SampleTraceFromOne ==
    \A n \in 1..MaxSamples : SampleReturns(n, Transposed)

\* C17 witness: Sample was asked for no sample of a model that has a
\* stochastic node, and returned.
C17_Witness ==
    /\ last.op = "Sample"
    /\ last.status = "ok"
    /\ last.n = 0
    /\ Len(stochastic) > 0

\* the raw draws SamplePosteriorPredictive(n, trace) takes from the source
PosteriorDraws(n) == Vectors(n * (1 + Len(observed)), RawDraws)

\* C18: SamplePosteriorPredictive panics when the trace lacks the name of a
\* stochastic node, having changed no node and taken no draw; a trace that
\* has the names of the stochastic nodes and of no observed node passes the
\* validation.
C18_MissingName ==
    \A n \in 0..MaxSamples, trace \in Traces : \A us \in PosteriorDraws(n) :
        LET r == ModelSamplePosteriorPredictive(Model, n, trace, us)
        IN  IF StochasticNames \subseteq DOMAIN trace
            THEN /\ ~TraceSize(nodes, stochastic, trace, 1, 0).panic
                 /\ n = 0 => ~r.panic
            ELSE r.panic /\ r.m = Model /\ r.draws = <<>>

\* C18 witness: SamplePosteriorPredictive panicked before its first
\* iteration on a model with a stochastic and an observed node.
C18_Witness ==
    /\ last.op = "SamplePosteriorPredictive"
    /\ last.status = "panic"
    /\ last.n = 0
    /\ Len(stochastic) = 1
    /\ Len(observed) = 1

\* C19: for a trace of length traceSize >= 1 the index drawn is at least 0
\* and at most traceSize - 1.
C19_IndexInRange ==
    (last.op = "DrawLoc" /\ last.traceSize >= 1) =>
        (0 <= last.loc /\ last.loc <= last.traceSize - 1)

\* C19 witness: an index was rounded up to the last place of a trace of
\* three entries or more.
C19_Witness ==
    /\ last.op = "DrawLoc"
    /\ last.traceSize >= 3
    /\ last.loc = last.traceSize - 1
    /\ FMul(last.u, (last.traceSize - 1) * One) < last.loc * One

\* the place in the list of draws of the index that iteration i of a
\* posterior-predictive call draws
PosteriorLocAt(i) == (i - 1) * (1 + Len(observed)) + 1

\* the entry of the trace that iteration i of the call that returned r gives
\* to the p-th stochastic node
TraceEntry(r, trace, p, i) ==
    trace[nodes[stochastic[p]].name][r.draws[PosteriorLocAt(i)].out + 1]

\* the value the p-th stochastic node holds after the assignments of
\* iteration i, an entry that SetValue rejects leaving the value as it was
RECURSIVE AssignedValue(_, _, _, _)
AssignedValue(r, trace, p, i) ==
    IF i = 0 THEN nodes[stochastic[p]].value
    ELSE IF SetValue(nodes[stochastic[p]], TraceEntry(r, trace, p, i)).err
    THEN AssignedValue(r, trace, p, i - 1)
    ELSE TraceEntry(r, trace, p, i)

\* the calls of SamplePosteriorPredictive that return, checked by P
PosteriorReturns(P(_, _, _)) ==
    \A n \in 0..MaxSamples, trace \in Traces : \A us \in PosteriorDraws(n) :
        LET r == ModelSamplePosteriorPredictive(Model, n, trace, us)
        IN  ~r.panic => P(r, trace, n)

\* in every iteration the observed nodes are drawn in their order, after
\* the index, with the values that Holds gives the stochastic parents; the
\* stochastic nodes are left with the values of the last iteration, and the
\* result has one sequence of length n per observed name
IterationsWith(Holds(_, _, _, _), r, trace, n) ==
    /\ DOMAIN r.trace = ObservedNames
    /\ \A j \in 1..Len(observed) : Len(r.trace[nodes[observed[j]].name]) = n
    /\ Len(r.draws) = n * (1 + Len(observed))
    /\ \A p \in 1..Len(stochastic) :
           r.m.nodes[stochastic[p]].value = Holds(r, trace, p, n)
    /\ \A i \in 1..n, j \in 1..Len(observed) :
           LET d == r.draws[PosteriorLocAt(i) + j]
           IN  /\ d.node = observed[j]
               /\ r.trace[nodes[observed[j]].name][i] = d.out
               /\ \A p \in 1..Len(stochastic) :
                      nodes[observed[j]].X = stochastic[p] =>
                          d.a = Holds(r, trace, p, i)

\* what C20 has every stochastic node hold after the assignments of
\* iteration i: its trace entry at the index drawn (the value it had, when
\* there was no iteration)
EntryValue(r, trace, p, i) ==
    IF i = 0 THEN nodes[stochastic[p]].value ELSE TraceEntry(r, trace, p, i)

IterationsAsStated(r, trace, n) == IterationsWith(EntryValue, r, trace, n)

IterationsAccepted(r, trace, n) == IterationsWith(AssignedValue, r, trace, n)

\* C20 as stated: in every iteration of SamplePosteriorPredictive every
\* stochastic node holds, once the assignments are made, its own trace entry
\* at the one index drawn for the iteration, and only then is each observed
\* node drawn; the result has one sequence of length numSamples per observed
\* name.
C20_PosteriorAssigns == PosteriorReturns(IterationsAsStated)

\* the same with a node keeping the value it had when its SetValue rejects
\* the entry: this much of C20 holds
C20_PosteriorAssignsAccepted == PosteriorReturns(IterationsAccepted)

\* C20 witness: SamplePosteriorPredictive has run an iteration on a model
\* with an observed node whose stochastic parent holds a value that is in
\* no trace.
C20_Witness ==
    /\ last.op = "SamplePosteriorPredictive"
    /\ last.status = "ok"
    /\ last.n > 0
    /\ Len(observed) = 1
    /\ Len(stochastic) = 1
    /\ nodes[observed[1]].X = stochastic[1]
    /\ nodes[stochastic[1]].value \notin Values

\* a call of SetValue on a node of the family kind has ended
SetValueOf(kind) == last.op = "SetValue" /\ last.kind = kind

\* the call stored the new value and returned no error
Stored == ~last.err /\ last.value = last.newValue

\* the call returned an OutOfBoundsErr and left the stored value as it was
Rejected == last.err /\ last.value = last.old

\* C21 as stated: Beta.SetValue(x) succeeds and stores x exactly when
\* 0 <= x <= 1, and for any other x returns an OutOfBoundsErr and leaves the
\* stored value unchanged.
C21_BetaSetValue ==
    SetValueOf("Beta") =>
        IF ~IsNaN(last.newValue) /\ 0 <= last.newValue /\ last.newValue <= One
        THEN Stored ELSE Rejected

\* the same for every x that is a number: this much of C21 holds
C21_BetaSetValueOfNumber ==
    SetValueOf("Beta") /\ ~IsNaN(last.newValue) => C21_BetaSetValue

\* C21 witness: Beta.SetValue has accepted an endpoint of [0, 1] and has
\* rejected a value next to [0, 1], on a node that held another value.
C21_Witness ==
    /\ SetValueOf("Beta")
    /\ last.old # last.newValue
    /\ \/ last.newValue \in {0, One} /\ Stored
       \/ last.newValue \in {-1, One + 1} /\ Rejected

\* whether round(x) is an integer from lo to hi
RoundsInto(x, lo, hi) == ~IsNaN(x) /\ lo <= Round(x) /\ Round(x) <= hi

\* C22 as stated: SetValue(x) of a Bernoulli or Binomial node checks x
\* rounded to the nearest integer (halves away from zero) and stores the
\* raw x: Bernoulli accepts exactly when round(x) is 0 or 1, Binomial
\* exactly when 0 <= round(x) <= N; a rejected call returns an
\* OutOfBoundsErr and leaves the stored value unchanged.
C22_DiscreteSetValue ==
    /\ SetValueOf("Bernoulli") =>
           IF RoundsInto(last.newValue, 0, One) THEN Stored ELSE Rejected
    /\ SetValueOf("Binomial") =>
           IF RoundsInto(last.newValue, 0, last.N) THEN Stored ELSE Rejected

\* the same for every x that is a number: this much of C22 holds
C22_DiscreteSetValueOfNumber ==
    last.op = "SetValue" /\ ~IsNaN(last.newValue) => C22_DiscreteSetValue

\* Bernoulli.SetValue does as C22 states for NaN too
C22_BernoulliSetValue ==
    SetValueOf("Bernoulli") => C22_DiscreteSetValue

\* C22 witness: a Binomial node has stored a value that is no integer and
\* rounds to its trial count, and a Bernoulli node has rejected a value
\* that rounds to 2.
C22_Witness ==
    \/ /\ SetValueOf("Binomial")
       /\ last.newValue = last.N + 1
       /\ last.old # last.newValue
       /\ Stored
    \/ /\ SetValueOf("Bernoulli")
       /\ last.newValue = One + Half
       /\ Rejected

LastLength(trace) ==
    IF stochastic = <<>> THEN 0
    ELSE Len(trace[nodes[stochastic[Len(stochastic)]].name])

\* the index that iteration i draws out of us, when the iterations before it
\* have ended
IndexAt(trace, us, i) == DrawLoc(LastLength(trace), us[PosteriorLocAt(i)])

\* the trace has no entry at the index of iteration i for the p-th
\* stochastic node
NoEntry(trace, us, p, i) ==
    \/ IndexAt(trace, us, i) < 0
    \/ IndexAt(trace, us, i) >= Len(trace[nodes[stochastic[p]].name])

\* iteration i finds no entry for some node
Fails(trace, us, i) == \E p \in 1..Len(stochastic) : NoEntry(trace, us, p, i)

\* the call that returned r panicked in iteration i at the p-th stochastic
\* node: the nodes before it hold what iteration i gave them, the others
\* what they held at the end of iteration i - 1
PanickedAt(r, trace, p, i) ==
    /\ Len(r.draws) = PosteriorLocAt(i)
    /\ r.draws[PosteriorLocAt(i)].b = LastLength(trace)
    /\ \A q \in 1..Len(stochastic) :
           r.m.nodes[stochastic[q]].value =
               AssignedValue(r, trace, q, IF q < p THEN i ELSE i - 1)

\* C24: SamplePosteriorPredictive takes the trace length from the sequence
\* of the last stochastic node and does not compare the lengths: a trace
\* that has every stochastic name is taken whatever its lengths, and the
\* call panics exactly when an iteration finds no entry at its index for
\* some node (a shorter sequence, or an empty last sequence), in the middle
\* of the iteration, the stochastic nodes before that node being assigned
\* already.
C24_TraceLengthOfLast ==
    \A n \in 0..MaxSamples, trace \in Traces : \A us \in PosteriorDraws(n) :
        LET r == ModelSamplePosteriorPredictive(Model, n, trace, us)
        IN  StochasticNames \subseteq DOMAIN trace =>
                /\ r.panic <=> \E i \in 1..n : Fails(trace, us, i)
                /\ \A i \in 1..n, p \in 1..Len(stochastic) :
                       /\ \A k \in 1..(i - 1) : ~Fails(trace, us, k)
                       /\ NoEntry(trace, us, p, i)
                       /\ \A q \in 1..(p - 1) : ~NoEntry(trace, us, q, i)
                       => PanickedAt(r, trace, p, i)

\* C24 witness: SamplePosteriorPredictive has drawn an index and then
\* panicked, in a model of two stochastic nodes of which the first holds a
\* value of a trace.
C24_Witness ==
    /\ last.op = "SamplePosteriorPredictive"
    /\ last.status = "panic"
    /\ last.value > 0
    /\ Len(stochastic) = 2
    /\ nodes[stochastic[1]].value \in Values
    /\ nodes[stochastic[2]].value \notin Values

\* the random-variable nodes of the model
Registered ==
    {stochastic[i] : i \in 1..Len(stochastic)}
        \cup {observed[i] : i \in 1..Len(observed)}

\* every proposed value is one that SetValue of its node accepts
Accepted(proposed) ==
    \A i \in 1..Len(proposed) :
        ~SetValue(nodes[stochastic[i]], proposed[i]).err

\* in the nodes h a gate that is a parameter of a random variable has an
\* input out of [0, 1], itself or through the gates it takes its input from
GateOutOfDomain(h) ==
    \E id \in Registered : ParameterPanics(h, id)

Table(r, n, c) ==
    /\ Len(r.batch) = n
    /\ \A i \in 1..n : Len(r.batch[i]) = c

\* Run does not start the embedded sampler
ChecksFail == sampler.isNil \/ Len(sampler.Initial) # sampler.NumVariables

\* every call of Run on the sampler, mat.NewDense taking any dimensions,
\* ends as P tells
RunEnds(P(_, _)) ==
    sampler.made =>
        \A n \in 0..MaxSamples : \A run \in EmbeddedRuns(n) :
            run.zeroOk =>
                P(MetropolisHastingsRun(sampler, Model, n, run.proposals,
                                        run.accepts, run.zeroOk), n)

RunAsStated(r, n) ==
    IF ChecksFail THEN r.panic /\ r.m = Model
    ELSE ~r.panic /\ Table(r, n, sampler.NumVariables)

\* Run on a sampler whose NumVariables is not the length of stochastic any
\* more panics when the check of Initial passes too: in the first call of
\* the Target's LogProb, which is given NumVariables values
RunOfCurrent(r, n) ==
    IF ChecksFail THEN r.panic /\ r.m = Model
    ELSE IF sampler.NumVariables = Len(stochastic)
    THEN ~r.panic /\ Table(r, n, sampler.NumVariables)
    ELSE r.panic /\ r.m = Model /\ Len(r.calls) = 1

\* C26 as stated: Run(numSamples) panics when Initial is nil or its length
\* is not NumVariables, and otherwise returns a table of numSamples rows and
\* NumVariables columns, NumVariables being the length of stochastic when
\* the sampler was made, whatever the Model has become since.
C26_Run == RunEnds(RunAsStated)

\* the same with a table returned only when NumVariables is still the
\* length of stochastic: this much of C26 holds
C26_RunOfCurrent == RunEnds(RunOfCurrent)

\* Observe and the factories leave NumVariables as it is
C26_NumVariablesKept ==
    [][sampler.made /\ last'.op \in FactoryOps \cup {"Observe", "Constant"}
           => sampler'.NumVariables = sampler.NumVariables]_vars

\* C26 witness: Run has passed its checks, with an Initial of NumVariables
\* values, on a sampler made when stochastic had another length, and has
\* panicked in the first LogProb.
C26_Witness ==
    /\ last.op = "Run"
    /\ last.status = "panic"
    /\ last.value = 1
    /\ ~sampler.isNil
    /\ Len(sampler.Initial) = sampler.NumVariables
    /\ sampler.NumVariables # Len(stochastic)

\* C27: Observe finds its target by name: given an object that is not in
\* the Model's stochastic collection and carries the name of a node that is,
\* it moves the Model's own node to observed and calls SetValue on that
\* node, and leaves the object it was given as it was.
C27_ObserveByName ==
    \A variable \in RandVarObjects, value \in Values :
        LET i == IndexOfName(nodes, stochastic, nodes[variable].name, 1)
            r == ModelObserveVar(Model, variable, value)
        IN  i # 0 /\ stochastic[i] # variable =>
                /\ ~r.panic
                /\ r.m.stochastic = SelectSeq(stochastic, LAMBDA x : x # stochastic[i])
                /\ r.m.observed = observed \o <<stochastic[i]>>
                /\ r.m.nodes[stochastic[i]] = SetValue(nodes[stochastic[i]], value).node
                /\ r.m.nodes[variable] = nodes[variable]

\* C27 witness: Observe was given an object made outside the Model, and a
\* node of the Model of the same name and of another family is now observed
\* and holds the value, which the object's own SetValue would have taken.
C27_Witness ==
    /\ last.op = "ObserveVar"
    /\ last.status = "ok"
    /\ last.variable \in ForeignObjects
    /\ Len(observed) > 0
    /\ nodes[observed[Len(observed)]].name = last.name
    /\ nodes[observed[Len(observed)]].value = last.value
    /\ nodes[observed[Len(observed)]].kind # nodes[last.variable].kind
    /\ nodes[last.variable].value # last.value
    /\ ~SetValue(nodes[last.variable], last.value).err

\* the value that the node holds is one that its SetValue accepts
HoldsAccepted(n) == ~SetValue(n, n.value).err

\* C28 as stated: in every reachable state the stored value of every
\* random variable of the Model is one that its own SetValue accepts (Beta
\* in [0, 1], Bernoulli rounding to 0 or 1, Binomial rounding into [0, N]),
\* the default values included.
C28_ValuesAccepted == \A id \in Registered : HoldsAccepted(nodes[id])

\* no call makes a node hold a value that its SetValue rejects, and the
\* default value of a new node is accepted unless the node is a Binomial:
\* this much of C28 holds
C28_ValuesKeptAccepted ==
    [][/\ \A id \in Registered :
              HoldsAccepted(nodes[id]) => HoldsAccepted(nodes'[id])
       /\ \A id \in (Len(nodes) + 1)..Len(nodes') :
              IsRandVar(nodes'[id]) /\ nodes'[id].kind # "Binomial"
                  => HoldsAccepted(nodes'[id])
       /\ \A id \in (Len(nodes) + 1)..Len(nodes') :
              /\ nodes'[id].kind = "Binomial"
              /\ nodes'[id].N > 0
              /\ Value(nodes, nodes'[id].X) \in 0..One
              => HoldsAccepted(nodes'[id])]_vars

\* C28 witness: the Model holds a Binomial node whose default value N * p
\* its SetValue accepts, next to a node that a call has given a value.
C28_Witness ==
    /\ \E id \in Registered :
           /\ nodes[id].kind = "Binomial"
           /\ nodes[id].value = FMul(nodes[id].N, Value(nodes, nodes[id].X))
           /\ HoldsAccepted(nodes[id])
    /\ \E id \in Registered : nodes[id].value \in Values
    /\ last.op \in SamplingOps \cup {"LogProb", "Observe"}

====
